---- MODULE Spec2Model ----
(***************************************************************************)
(* The two command-line tools of the repository as state machines:        *)
(*   - the Config Validator, examples-copier/scripts/                     *)
(*     validate-config-detailed.py (validate_config and __main__);        *)
(*   - the Pattern Tester, test_patterns.py (test_file and main).         *)
(* Strings are TLA+ strings; the regular-expression, glob and prefix      *)
(* tests are computed character by character.                             *)
(***************************************************************************)
EXTENDS Integers, Sequences, FiniteSets, TLC

VARIABLES
    \* ---- Config Validator ----
    argc,           \* len(sys.argv)
    config,         \* the document yaml.safe_load returns (the input)
    pc,             \* position in __main__ / validate_config
    issues,         \* validate_config's local list `issues`
    warnings,       \* validate_config's local list `warnings`
    i,              \* enumerate(rules, 1): index of the rule last visited
    j,              \* enumerate(targets, 1): index of the target last visited
    result,         \* what validate_config returned: "unset", "True", "False"
    exc,            \* the uncaught exception, "" when none
    exit_code,      \* the process exit status, -1 while running
    runs,           \* the reports of the completed invocations, in order
    \* ---- Pattern Tester ----
    tpc,            \* position in main / test_file
    f,              \* main: index of the file last taken from TEST_FILES
    file_path,      \* test_file's argument
    r,              \* test_file: index of the rule last evaluated
    matching_rules, \* test_file's local list
    status,         \* test_file's returned classification
    rules_out,      \* test_file's returned rule list
    matched_count, skipped_count, excluded_count, skipped_files

vvars == <<argc, config, pc, issues, warnings, i, j, result, exc, exit_code, runs>>
tvars == <<tpc, f, file_path, r, matching_rules, status, rules_out,
           matched_count, skipped_count, excluded_count, skipped_files>>
vars == <<vvars, tvars>>

(***************************************************************************)
(* Bounds of the model.                                                    *)
(***************************************************************************)
MaxRules == 2
MaxTargets == 2
MaxRuns == 2
MaxChunks == 2

(***************************************************************************)
(* Strings.                                                                *)
(***************************************************************************)
Char(s, k) == SubSeq(s, k, k)

StartsWith(s, p) == Len(p) <= Len(s) /\ SubSeq(s, 1, Len(p)) = p

SetMin(S) == CHOOSE x \in S : \A y \in S : x <= y

SeqsUpTo(S, n) == UNION {[1..m -> S] : m \in 0..n}

\* \w of Python's re on the ASCII letters, digits and underscore
WordChars == "abcdefghijklmnopqrstuvwxyzABCDEFGHIJKLMNOPQRSTUVWXYZ0123456789_"

IsWord(c) == \E k \in 1..Len(WordChars) : Char(WordChars, k) = c

IsDigit(c) == c \in {"0", "1", "2", "3", "4", "5", "6", "7", "8", "9"}

(***************************************************************************)
(* YAML values.  A scalar is none, a string or an integer (its text in s). *)
(***************************************************************************)
None == [kind |-> "none", s |-> ""]
Str(x) == [kind |-> "str", s |-> x]
Num(x) == [kind |-> "int", s |-> x]

\* Python truthiness of a scalar: None, "" and 0 are falsy
Truthy(v) ==
    CASE v.kind = "none" -> FALSE
      [] v.kind = "str" -> v.s # ""
      [] v.kind = "int" -> v.s # "0"

\* commit_strategy values; has_type tells whether the key `type` is present
NoStrategy == [kind |-> "str", has_type |-> FALSE, type |-> None]
StrategyDict(has, t) == [kind |-> "dict", has_type |-> has, type |-> t]

\* a target: a mapping with the given keys, or a non-mapping
Target(keys, strategy) ==
    [kind |-> "dict", keys |-> keys, commit_strategy |-> strategy]
TargetNonDict == [kind |-> "str", keys |-> {}, commit_strategy |-> NoStrategy]

\* the value of a key that holds a list (kind "list"), is absent, or is a
\* non-list (kind "str": iterating it yields non-mapping items)
Absent == [kind |-> "absent", items |-> <<>>]
List(xs) == [kind |-> "list", items |-> xs]
NonList(xs) == [kind |-> "str", items |-> xs]
Null == [kind |-> "null", items |-> <<>>]

\* source_pattern values
PatternAbsent == [kind |-> "absent", type |-> None, pattern |-> None]
PatternNonDict == [kind |-> "str", type |-> None, pattern |-> None]
Pattern(t, p) == [kind |-> "dict", type |-> t, pattern |-> p]

\* a rule: a mapping, or a non-mapping
NoName == [kind |-> "absent", s |-> ""]
Rule(name, sp, targets) ==
    [kind |-> "dict", name |-> name, source_pattern |-> sp, targets |-> targets]
RuleNonDict ==
    [kind |-> "str", name |-> NoName, source_pattern |-> PatternAbsent,
     targets |-> Absent]

\* the document: root is "parse_error", "non_mapping" or "mapping"
Doc(root, has_source_repo, copy_rules) ==
    [root |-> root, source_repo |-> has_source_repo, copy_rules |-> copy_rules]

(***************************************************************************)
(* re.search(r'\(\?P<\w+>', pattern_str)                                   *)
(***************************************************************************)
has_regex_syntax(pattern_str) ==
    \E k \in 1..Len(pattern_str) :
        /\ k + 3 <= Len(pattern_str)
        /\ SubSeq(pattern_str, k, k + 3) = "(?P<"
        /\ \E e \in (k + 5)..Len(pattern_str) :
              /\ Char(pattern_str, e) = ">"
              /\ \A m \in (k + 4)..(e - 1) : IsWord(Char(pattern_str, m))

(***************************************************************************)
(* re.compile(pattern_str): "" when the pattern compiles, else the message *)
(* of re.error.  The parser covers literals, escaped characters, groups    *)
(* "(", "(?:", "(?P<n>", ")", "|", the anchors and the repeat operators.   *)
(***************************************************************************)
IsIdent(name) ==
    /\ Len(name) > 0
    /\ ~IsDigit(Char(name, 1))
    /\ \A m \in 1..Len(name) : IsWord(Char(name, m))

RECURSIVE sre_parse(_, _, _, _)
sre_parse(p, k, depth, atom) ==
    IF k > Len(p)
    THEN IF depth > 0 THEN "missing ), unterminated subpattern" ELSE ""
    ELSE LET c == Char(p, k) IN
      CASE c = "(" ->
             IF k + 3 <= Len(p) /\ SubSeq(p, k + 1, k + 3) = "?P<"
             THEN LET closes == {e \in (k + 4)..Len(p) : Char(p, e) = ">"} IN
                  IF closes = {} THEN "missing >, unterminated name"
                  ELSE LET e == SetMin(closes) IN
                       IF e = k + 4 THEN "missing group name"
                       ELSE IF ~IsIdent(SubSeq(p, k + 4, e - 1))
                            THEN "bad character in group name"
                            ELSE sre_parse(p, e + 1, depth + 1, FALSE)
             ELSE IF k + 2 <= Len(p) /\ SubSeq(p, k + 1, k + 2) = "?:"
                  THEN sre_parse(p, k + 3, depth + 1, FALSE)
                  ELSE sre_parse(p, k + 1, depth + 1, FALSE)
        [] c = ")" ->
             IF depth = 0 THEN "unbalanced parenthesis"
             ELSE sre_parse(p, k + 1, depth - 1, TRUE)
        [] c \in {"*", "+", "?"} ->
             IF ~atom THEN "nothing to repeat"
             ELSE sre_parse(p, k + 1, depth, TRUE)
        [] c \in {"|", "^", "$"} -> sre_parse(p, k + 1, depth, FALSE)
        [] c = "\\" /\ k < Len(p) -> sre_parse(p, k + 2, depth, TRUE)
        [] OTHER -> sre_parse(p, k + 1, depth, TRUE)

re_compile(pattern_str) == sre_parse(pattern_str, 1, 0, FALSE)

(***************************************************************************)
(* The messages.  An entry of `issues` or `warnings` is the f-string's     *)
(* parts: the rule name, the target number (0 when the message names no    *)
(* target), the fixed text and the interpolated detail.  The field `rule`  *)
(* is the position of the rule in copy_rules (0 for a document-level       *)
(* message); the program's string does not carry it.                       *)
(***************************************************************************)
Msg(rule, name, target, text, detail) ==
    [rule |-> rule, name |-> name, target |-> target, msg |-> text,
     detail |-> detail]

\* rule.get('name', f'Rule {i}')
rule_name(rule, k) ==
    IF rule.name.kind = "absent" THEN "Rule " \o ToString(k) ELSE rule.name.s

\* config.get('copy_rules', [])
Rules(cfg) ==
    IF cfg.copy_rules.kind = "absent" THEN <<>> ELSE cfg.copy_rules.items

(***************************************************************************)
(* validate_config, check by check.                                        *)
(***************************************************************************)

\* a list that outlives the call: what the previous run left in it
NewIssues_Stale == issues

\* issues = [] (line 13) and warnings = [] (line 14)
NewIssues == <<>>

NewWarnings == <<>>

\* lines 37-41: the required top-level fields
RequiredFieldIssues(cfg) ==
    (IF ~cfg.source_repo
     THEN <<Msg(0, "", 0, "Missing required field", "source_repo")>> ELSE <<>>)
    \o (IF cfg.copy_rules.kind = "absent"
        THEN <<Msg(0, "", 0, "Missing required field", "copy_rules")>> ELSE <<>>)

\* no early return after the required-field check
StructuralFailure_Never(iss) == FALSE

\* line 43: `if issues:` before the rule loop
StructuralFailure(iss) == iss # <<>>

\* lines 79-82: the pattern type
TypeIssues(k, name, pattern_type) ==
    IF ~Truthy(pattern_type)
    THEN <<Msg(k, name, 0, "Missing pattern type", "")>>
    ELSE IF ~(pattern_type.kind = "str"
              /\ pattern_type.s \in {"prefix", "glob", "regex"})
         THEN <<Msg(k, name, 0, "Invalid pattern type", pattern_type.s)>>
         ELSE <<>>

\* the type is not looked at
MismatchFound_AnyType(pattern_type, pattern_str) ==
    has_regex_syntax(pattern_str.s)

\* line 90: pattern_type == 'prefix' and has_regex_syntax
MismatchFound(pattern_type, pattern_str) ==
    pattern_type = Str("prefix") /\ has_regex_syntax(pattern_str.s)

\* lines 91-92
MismatchIssues(k, name, pattern_type, pattern_str) ==
    IF MismatchFound(pattern_type, pattern_str)
    THEN <<Msg(k, name, 0,
               "Pattern type is 'prefix' but pattern contains regex syntax '(?P<...>)'",
               "")>>
    ELSE <<>>

MismatchWarnings(k, name, pattern_type, pattern_str) ==
    IF MismatchFound(pattern_type, pattern_str)
    THEN <<Msg(k, name, 0, "Should use type: 'regex' instead of 'prefix'", "")>>
    ELSE <<>>

\* the compilation error is swallowed
RegexIssues_Swallowed(k, name, pattern_type, pattern_str) == <<>>

\* lines 95-99: try: re.compile(pattern_str) except re.error as e
RegexIssues(k, name, pattern_type, pattern_str) ==
    IF pattern_type = Str("regex") /\ re_compile(pattern_str.s) # ""
    THEN <<Msg(k, name, 0, "Invalid regex pattern", re_compile(pattern_str.s))>>
    ELSE <<>>

\* lines 126-133: commit_strategy of a target
StrategyIssues(k, name, t, target) ==
    IF "commit_strategy" \in target.keys
    THEN LET strategy == target.commit_strategy IN
         IF strategy.kind # "dict"
         THEN <<Msg(k, name, t, "commit_strategy must be a dictionary", "")>>
         ELSE LET strategy_type ==
                      IF strategy.has_type THEN strategy.type ELSE None IN
              IF Truthy(strategy_type)
                 /\ ~(strategy_type.kind = "str"
                      /\ strategy_type.s \in {"direct", "pull_request"})
              THEN <<Msg(k, name, t, "Invalid commit_strategy type",
                         strategy_type.s)>>
              ELSE <<>>
    ELSE <<>>

\* lines 116-117
RepoIssues(k, name, t, target) ==
    IF "repo" \notin target.keys
    THEN <<Msg(k, name, t, "Missing 'repo' field", "")>> ELSE <<>>

\* lines 119-123
TargetWarnings(k, name, t, target) ==
    (IF "branch" \notin target.keys
     THEN <<Msg(k, name, t, "Missing 'branch' field (will use default)", "")>>
     ELSE <<>>)
    \o (IF "path_transform" \notin target.keys
        THEN <<Msg(k, name, t, "Missing 'path_transform' field", "")>>
        ELSE <<>>)

(***************************************************************************)
(* The actions of the Config Validator.                                    *)
(***************************************************************************)

\* lines 163-168: the argument count
Main ==
    /\ pc = "main"
    /\ IF argc # 2
       THEN /\ pc' = "exited"
            /\ exit_code' = 1
            /\ runs' = Append(runs, [issues |-> <<>>, warnings |-> <<>>,
                                     result |-> "unset", exit_code |-> 1])
       ELSE /\ pc' = "load"
            /\ UNCHANGED <<exit_code, runs>>
    /\ UNCHANGED <<argc, config, issues, warnings, i, j, result, exc>>
    /\ UNCHANGED tvars

\* lines 13-29: the fresh lists, then the parse
Load ==
    /\ pc = "load"
    /\ issues' = NewIssues
    /\ warnings' = NewWarnings
    /\ IF config.root = "parse_error"
       THEN pc' = "returned" /\ result' = "False"
       ELSE pc' = "structure" /\ UNCHANGED result
    /\ UNCHANGED <<argc, config, i, j, exc, exit_code, runs>>
    /\ UNCHANGED tvars

\* lines 32-47: the root and the required fields
CheckStructure ==
    /\ pc = "structure"
    /\ IF config.root # "mapping"
       THEN /\ issues' = Append(issues,
                   Msg(0, "", 0, "Config must be a dictionary", ""))
            /\ pc' = "returned"
            /\ result' = "False"
       ELSE /\ issues' = issues \o RequiredFieldIssues(config)
            /\ IF StructuralFailure(issues')
               THEN pc' = "returned" /\ result' = "False"
               ELSE pc' = "summary" /\ UNCHANGED result
    /\ UNCHANGED <<argc, config, warnings, i, j, exc, exit_code, runs>>
    /\ UNCHANGED tvars

\* lines 49-56: the summary; len() of a copy_rules that has no length raises
Summary ==
    /\ pc = "summary"
    /\ IF config.copy_rules.kind = "null"
       THEN pc' = "raised" /\ exc' = "TypeError"
       ELSE pc' = "rules" /\ UNCHANGED exc
    /\ UNCHANGED <<argc, config, issues, warnings, i, j, result, exit_code, runs>>
    /\ UNCHANGED tvars

\* lines 57-108: one iteration of the rule loop, up to its target loop
ValidateRule ==
    /\ pc = "rules"
    /\ i < Len(Rules(config))
    /\ LET k == i + 1
           rule == Rules(config)[k]
           name == rule_name(rule, k)
           pattern == rule.source_pattern
           pattern_type == pattern.type
           pattern_str == pattern.pattern
           targets == rule.targets
       IN
       /\ i' = k
       /\ j' = 0
       /\ IF rule.kind # "dict"
          THEN \* line 58: rule.get on a non-mapping
               /\ pc' = "raised" /\ exc' = "AttributeError"
               /\ UNCHANGED <<issues, warnings>>
          ELSE IF pattern.kind = "absent"
          THEN /\ issues' = Append(issues,
                      Msg(k, name, 0, "Missing source_pattern", ""))
               /\ UNCHANGED <<pc, warnings, exc>>
          ELSE IF targets.kind = "absent"
          THEN /\ issues' = Append(issues, Msg(k, name, 0, "Missing targets", ""))
               /\ UNCHANGED <<pc, warnings, exc>>
          ELSE IF pattern.kind # "dict"
          THEN /\ issues' = Append(issues,
                      Msg(k, name, 0, "source_pattern must be a dictionary", ""))
               /\ UNCHANGED <<pc, warnings, exc>>
          ELSE IF ~Truthy(pattern_str)
          THEN LET iss == issues \o TypeIssues(k, name, pattern_type)
                             \o <<Msg(k, name, 0, "Missing pattern string", "")>>
               IN
               IF targets.kind # "list"
               THEN /\ issues' = Append(iss,
                           Msg(k, name, 0, "targets must be a list", ""))
                    /\ UNCHANGED <<pc, warnings, exc>>
               ELSE /\ issues' = iss
                    /\ warnings' =
                         IF Len(targets.items) = 0
                         THEN Append(warnings,
                                     Msg(k, name, 0, "No targets defined", ""))
                         ELSE warnings
                    /\ pc' = "targets"
                    /\ UNCHANGED exc
          ELSE IF pattern_str.kind # "str"
          THEN \* line 88: re.search on a non-string
               /\ issues' = issues \o TypeIssues(k, name, pattern_type)
               /\ pc' = "raised" /\ exc' = "TypeError"
               /\ UNCHANGED warnings
          ELSE LET iss == issues \o TypeIssues(k, name, pattern_type)
                             \o MismatchIssues(k, name, pattern_type, pattern_str)
                             \o RegexIssues(k, name, pattern_type, pattern_str)
                   warn == warnings
                             \o MismatchWarnings(k, name, pattern_type, pattern_str)
               IN
               IF targets.kind # "list"
               THEN /\ issues' = Append(iss,
                           Msg(k, name, 0, "targets must be a list", ""))
                    /\ warnings' = warn
                    /\ UNCHANGED <<pc, exc>>
               ELSE /\ issues' = iss
                    /\ warnings' =
                         IF Len(targets.items) = 0
                         THEN Append(warn,
                                     Msg(k, name, 0, "No targets defined", ""))
                         ELSE warn
                    /\ pc' = "targets"
                    /\ UNCHANGED exc
    /\ UNCHANGED <<argc, config, result, exit_code, runs>>
    /\ UNCHANGED tvars

\* lines 110-133: one iteration of the target loop
ValidateTarget ==
    /\ pc = "targets"
    /\ j < Len(Rules(config)[i].targets.items)
    /\ LET rule == Rules(config)[i]
           name == rule_name(rule, i)
           t == j + 1
           target == rule.targets.items[t]
       IN
       /\ j' = t
       /\ IF target.kind # "dict"
          THEN /\ issues' = Append(issues,
                      Msg(i, name, t, "Must be a dictionary", ""))
               /\ UNCHANGED warnings
          ELSE /\ issues' = issues \o RepoIssues(i, name, t, target)
                                   \o StrategyIssues(i, name, t, target)
               /\ warnings' = warnings \o TargetWarnings(i, name, t, target)
    /\ UNCHANGED <<argc, config, pc, i, result, exc, exit_code, runs>>
    /\ UNCHANGED tvars

\* line 135: the target loop is over, on to the next rule
RuleValidated ==
    /\ pc = "targets"
    /\ j = Len(Rules(config)[i].targets.items)
    /\ pc' = "rules"
    /\ UNCHANGED <<argc, config, issues, warnings, i, j, result, exc,
                   exit_code, runs>>
    /\ UNCHANGED tvars

\* lines 137-161: the rule loop is over; the summary and the returned flag
Report ==
    /\ pc = "rules"
    /\ i = Len(Rules(config))
    /\ pc' = "returned"
    /\ result' = IF issues = <<>> THEN "True" ELSE "False"
    /\ UNCHANGED <<argc, config, issues, warnings, i, j, exc, exit_code, runs>>
    /\ UNCHANGED tvars

\* line 170: sys.exit(0 if success else 1)
Exit ==
    /\ pc = "returned"
    /\ exit_code' = IF result = "True" THEN 0 ELSE 1
    /\ pc' = "exited"
    /\ runs' = Append(runs, [issues |-> issues, warnings |-> warnings,
                             result |-> result, exit_code |-> exit_code'])
    /\ UNCHANGED <<argc, config, issues, warnings, i, j, result, exc>>
    /\ UNCHANGED tvars

\* an exception nothing catches: the interpreter prints the traceback and
\* the process ends with status 1; validate_config returned nothing
Uncaught ==
    /\ pc = "raised"
    /\ exit_code' = 1
    /\ pc' = "exited"
    /\ runs' = Append(runs, [issues |-> issues, warnings |-> warnings,
                             result |-> result, exit_code |-> 1])
    /\ UNCHANGED <<argc, config, issues, warnings, i, j, result, exc>>
    /\ UNCHANGED tvars

\* the tool is run again on the same, unmodified document: a new process,
\* in which nothing is bound until validate_config binds it at lines 13-14
Rerun ==
    /\ pc = "exited"
    /\ Len(runs) < MaxRuns
    /\ pc' = "main"
    /\ i' = 0
    /\ j' = 0
    /\ result' = "unset"
    /\ exc' = ""
    /\ exit_code' = -1
    /\ UNCHANGED <<argc, config, issues, warnings, runs>>
    /\ UNCHANGED tvars

(***************************************************************************)
(* The documents the validator is run on.                                  *)
(***************************************************************************)
AllTargetKeys == {"repo", "branch", "path_transform"}

GoodTarget == Target(AllTargetKeys, NoStrategy)

\* commit_strategy values: a non-mapping, and mappings without `type`, with
\* an allowed, an unknown, an empty and a null `type`
StrategySet ==
    {NoStrategy, StrategyDict(FALSE, None), StrategyDict(TRUE, Str("direct")),
     StrategyDict(TRUE, Str("pull_request")), StrategyDict(TRUE, Str("merge")),
     StrategyDict(TRUE, Str("")), StrategyDict(TRUE, None)}

TargetSet ==
    {TargetNonDict, GoodTarget, Target({}, NoStrategy),
     Target({"repo"}, NoStrategy)}
    \cup {Target(AllTargetKeys \cup {"commit_strategy"}, st) : st \in StrategySet}

PatternSet ==
    {PatternAbsent, PatternNonDict,
     Pattern(Str("prefix"), None),
     Pattern(Str("prefix"), Num("5")),
     Pattern(Str("prefix"), Str("mflix/client/")),
     Pattern(Str("prefix"), Str("(?P<file>.+)")),
     Pattern(Str("glob"), Str("(?P<file>.+)")),
     Pattern(Str("glob"), Str("*.md")),
     Pattern(Str("regex"), Str("^mflix/(?P<file>.+)$")),
     Pattern(Str("regex"), Str("(")),
     Pattern(Str("regex"), Str("*.md")),
     Pattern(Str("regex"), Str("(?P<>x)")),
     Pattern(Str("exact"), Str("mflix/client/")),
     Pattern(None, None),
     Pattern(None, Str("(?P<file>.+)"))}

\* the patterns whose rules are also given every shape of `targets`
ProbePatterns ==
    {Pattern(Str("prefix"), Str("(?P<file>.+)")),
     Pattern(Str("regex"), Str("("))}

TargetsShapes == {Absent, NonList(<<>>), List(<<>>), List(<<TargetNonDict>>)}

RuleSet ==
    {RuleNonDict}
    \cup {Rule(NoName, sp, List(<<GoodTarget>>)) : sp \in PatternSet}
    \cup {Rule(Str("docs"), sp, tg) : sp \in ProbePatterns, tg \in TargetsShapes}

\* documents that vary the rules
RuleDocs ==
    {Doc("mapping", TRUE, List(rs)) : rs \in SeqsUpTo(RuleSet, MaxRules)}

\* documents of one rule that vary its targets
TargetDocs ==
    {Doc("mapping", TRUE, List(<<Rule(NoName, sp, List(ts))>>)) :
        sp \in {Pattern(Str("prefix"), Str("mflix/client/")),
                Pattern(Str("regex"), Str("("))},
        ts \in SeqsUpTo(TargetSet, MaxTargets)}

\* documents that vary the root and the top-level keys
TopDocs ==
    {Doc("parse_error", FALSE, Absent), Doc("non_mapping", FALSE, Absent)}
    \cup {Doc("mapping", sr, cr) :
            sr \in BOOLEAN,
            cr \in {Absent, Null, NonList(<<>>),
                    NonList(<<RuleNonDict, RuleNonDict>>)}}
    \cup {Doc("mapping", FALSE, List(rs)) :
            rs \in SeqsUpTo(
                     {RuleNonDict,
                      Rule(NoName, Pattern(Str("regex"), Str("(")),
                           List(<<Target({}, NoStrategy)>>))},
                     MaxRules)}

Configs == RuleDocs \cup TargetDocs \cup TopDocs

TesterIdle ==
    /\ tpc = "idle"
    /\ f = 0
    /\ file_path = ""
    /\ r = 0
    /\ matching_rules = <<>>
    /\ status = ""
    /\ rules_out = <<>>
    /\ matched_count = 0
    /\ skipped_count = 0
    /\ excluded_count = 0
    /\ skipped_files = <<>>

ValidatorIdle ==
    /\ argc = 0
    /\ config = Doc("mapping", FALSE, Absent)
    /\ pc = "idle"
    /\ issues = <<>>
    /\ warnings = <<>>
    /\ i = 0
    /\ j = 0
    /\ result = "unset"
    /\ exc = ""
    /\ exit_code = -1
    /\ runs = <<>>

\* the validator is started on a document, or with a wrong argument count
Init ==
    /\ \/ argc = 2 /\ config \in Configs
       \/ argc \in {1, 3} /\ config = Doc("mapping", FALSE, Absent)
    /\ pc = "main"
    /\ issues = <<>>
    /\ warnings = <<>>
    /\ i = 0
    /\ j = 0
    /\ result = "unset"
    /\ exc = ""
    /\ exit_code = -1
    /\ runs = <<>>
    /\ TesterIdle

Next ==
    \/ Main
    \/ Load
    \/ CheckStructure
    \/ Summary
    \/ ValidateRule
    \/ ValidateTarget
    \/ RuleValidated
    \/ Report
    \/ Exit
    \/ Uncaught
    \/ Rerun

Spec == Init /\ [][Next]_vars

(***************************************************************************)
(* Properties of the Config Validator.                                     *)
(***************************************************************************)

\* how many entries of a list name rule k, target t and carry the text
CountMsg(list, k, t, text) ==
    Cardinality({n \in 1..Len(list) :
                    list[n].rule = k /\ list[n].target = t /\ list[n].msg = text})

\* the document parses, has a mapping root and both required keys
TopLevelOk(cfg) ==
    cfg.root = "mapping" /\ cfg.source_repo /\ cfg.copy_rules.kind # "absent"

\* validate_config has bound its lists in this invocation
Entered == pc \notin {"idle", "main", "load"}

MissingKeys(cfg) ==
    {key \in {"source_repo", "copy_rules"} :
        \/ key = "source_repo" /\ ~cfg.source_repo
        \/ key = "copy_rules" /\ cfg.copy_rules.kind = "absent"}

\* C1: for every document that parses, has a mapping root and both required
\* keys, validate_config returns True exactly when the issue list is empty
\* at the end of the run, and the exit status is 0 exactly when it returned
\* True and 1 otherwise.
C1_SuccessIffNoIssues ==
    (pc = "exited" /\ argc = 2 /\ TopLevelOk(config)) =>
        /\ (result = "True") <=> (issues = <<>>)
        /\ (exit_code = 0) <=> (result = "True")
        /\ exit_code \in {0, 1}

\* C2: a document with a mapping root that misses source_repo or copy_rules
\* gets exactly one issue per missing key and nothing else, the run returns
\* failure, and no rule is visited and no rule-level message is recorded.
C2_MissingKeysShortCircuit ==
    (argc = 2 /\ config.root = "mapping" /\ MissingKeys(config) # {}) =>
        /\ i = 0 /\ j = 0
        /\ pc \notin {"summary", "rules", "targets", "raised"}
        /\ warnings = <<>>
        /\ \A n \in 1..Len(issues) :
              /\ issues[n].msg = "Missing required field"
              /\ issues[n].detail \in MissingKeys(config)
              /\ issues[n].rule = 0
        /\ pc \in {"returned", "exited"} =>
              /\ result = "False"
              /\ Len(issues) = Cardinality(MissingKeys(config))
              /\ \A key \in MissingKeys(config) :
                    \E n \in 1..Len(issues) : issues[n].detail = key
        /\ pc = "exited" => exit_code = 1

\* C2 witness: a document without source_repo whose copy_rules holds rules
\* has been rejected
C2_Witness ==
    /\ pc = "exited"
    /\ config.root = "mapping"
    /\ ~config.source_repo
    /\ Len(Rules(config)) >= 1
    /\ Len(issues) = 1

\* the patterns of the documents that re.compile rejects
NonCompiling == {"(", "*.md", "(?P<>x)"}

BadRegexRule(rule) ==
    /\ rule.kind = "dict"
    /\ rule.source_pattern.kind = "dict"
    /\ rule.source_pattern.type = Str("regex")
    /\ rule.source_pattern.pattern.kind = "str"
    /\ rule.source_pattern.pattern.s \in NonCompiling

NamedGroupPatterns == {"(?P<file>.+)", "^mflix/(?P<file>.+)$"}

PrefixNamedRule(rule) ==
    /\ rule.kind = "dict"
    /\ rule.source_pattern.kind = "dict"
    /\ rule.source_pattern.type = Str("prefix")
    /\ rule.source_pattern.pattern.kind = "str"
    /\ rule.source_pattern.pattern.s \in NamedGroupPatterns

MismatchIssueText ==
    "Pattern type is 'prefix' but pattern contains regex syntax '(?P<...>)'"

MismatchWarningText == "Should use type: 'regex' instead of 'prefix'"

\* C4 as stated: every rule whose type is prefix and whose pattern holds a
\* named capture group has both the mismatch issue and the companion
\* warning in the report of a run that went through the rule loop.
C4_EveryMismatchReported ==
    (pc = "returned" /\ TopLevelOk(config)) =>
        \A k \in 1..Len(Rules(config)) :
            PrefixNamedRule(Rules(config)[k]) =>
                /\ CountMsg(issues, k, 0, MismatchIssueText) = 1
                /\ CountMsg(warnings, k, 0, MismatchWarningText) = 1

\* C4 amended: a rule has the mismatch issue and the companion warning, one
\* of each, exactly when it has been visited, has the targets key, its type
\* is prefix and its pattern holds a named capture group; any other rule has
\* neither.
C4_MismatchIffPrefixNamed ==
    Entered =>
        \A k \in 1..Len(Rules(config)) :
            LET rule == Rules(config)[k]
                both == k <= i /\ PrefixNamedRule(rule)
                            /\ rule.targets.kind # "absent"
            IN
            /\ CountMsg(issues, k, 0, MismatchIssueText) = (IF both THEN 1 ELSE 0)
            /\ CountMsg(warnings, k, 0, MismatchWarningText)
                  = (IF both THEN 1 ELSE 0)

\* C4 witness: a finished run reported the mismatch of a prefix rule, and
\* another rule of the document holds a named group under another type
C4_Witness ==
    /\ pc = "exited"
    /\ \E k \in 1..Len(Rules(config)) :
          /\ PrefixNamedRule(Rules(config)[k])
          /\ CountMsg(issues, k, 0, MismatchIssueText) = 1
          /\ CountMsg(warnings, k, 0, MismatchWarningText) = 1
    /\ \E k \in 1..Len(Rules(config)) :
          /\ Rules(config)[k].kind = "dict"
          /\ Rules(config)[k].source_pattern.type = Str("glob")
          /\ Rules(config)[k].source_pattern.pattern = Str("(?P<file>.+)")
          /\ k <= i

\* C7: the reports of two runs on the same document are identical: the same
\* issues and warnings in the same order, the same returned flag and the
\* same exit status.
C7_Idempotent ==
    \A a \in 1..Len(runs) : \A b \in 1..Len(runs) : runs[a] = runs[b]

\* C7 witness: a second run has ended with issues and warnings
C7_Witness ==
    /\ Len(runs) = 2
    /\ runs[2].issues # <<>>
    /\ runs[2].warnings # <<>>

\* C8: whatever the shape of the document's values, the run ends with a
\* boolean flag and an exit status of 0 or 1, and nothing is raised.
C8_RunsToCompletion ==
    (pc = "exited" /\ argc = 2) =>
        /\ result \in {"True", "False"}
        /\ exc = ""
        /\ exit_code \in {0, 1}

\* C9: a validated target mapping with a commit_strategy key has one
\* commit_strategy issue when the value is not a mapping or is a mapping
\* whose type key is present with a value outside {direct, pull_request},
\* and none otherwise.
C9_StrategyIssueIffInvalid ==
    pc = "targets" =>
        \A t \in 1..j :
            LET target == Rules(config)[i].targets.items[t]
                strategy == target.commit_strategy
                invalid ==
                    \/ strategy.kind # "dict"
                    \/ /\ strategy.has_type
                       /\ strategy.type \notin {Str("direct"), Str("pull_request")}
            IN
            (target.kind = "dict" /\ "commit_strategy" \in target.keys) =>
                CountMsg(issues, i, t, "commit_strategy must be a dictionary")
                  + CountMsg(issues, i, t, "Invalid commit_strategy type")
                    = (IF invalid THEN 1 ELSE 0)

(***************************************************************************)
(* The Pattern Tester: its embedded data.                                  *)
(***************************************************************************)
TEST_FILES ==
    << "mflix/client/src/App.tsx",
       "mflix/client/src/components/Header.tsx",
       "mflix/client/package.json",
       "mflix/client/.gitignore",
       "mflix/client/README.md",
       "mflix/server/java-spring/src/main/java/Main.java",
       "mflix/server/java-spring/pom.xml",
       "mflix/server/java-spring/.env",
       "mflix/server/js-express/src/index.js",
       "mflix/server/js-express/package.json",
       "mflix/server/python-fastapi/main.py",
       "mflix/server/python-fastapi/requirements.txt",
       "mflix/README-JAVA-SPRING.md",
       "mflix/README-JAVASCRIPT-EXPRESS.md",
       "mflix/README-PYTHON-FASTAPI.md",
       "mflix/.gitignore-java",
       "mflix/.gitignore-js",
       "mflix/.gitignore-python",
       "mflix/docker-compose.yml",
       "mflix/package.json",
       "mflix/README.md",
       "other/file.txt" >>

P(name, type, pattern) == [name |-> name, type |-> type, pattern |-> pattern]

\* the dict PATTERNS, in insertion order
PATTERNS ==
    << P("mflix-client-to-java", "prefix", "mflix/client/"),
       P("java-server", "regex", "^mflix/server/java-spring/(?P<file>.+)$"),
       P("mflix-java-readme", "glob", "mflix/README-JAVA-SPRING.md"),
       P("mflix-java-gitignore", "glob", "mflix/.gitignore-java"),
       P("mflix-client-to-js", "prefix", "mflix/client/"),
       P("mflix-express-server", "regex", "^mflix/server/js-express/(?P<file>.+)$"),
       P("mflix-js-readme", "glob", "mflix/README-JAVASCRIPT-EXPRESS.md"),
       P("mflix-js-gitignore", "glob", "mflix/.gitignore-js"),
       P("mflix-client-to-python", "prefix", "mflix/client/"),
       P("mflix-python-server", "regex",
         "^mflix/server/python-fastapi/(?P<file>.+)$"),
       P("mflix-python-readme", "glob", "mflix/README-PYTHON-FASTAPI.md"),
       P("mflix-python-gitignore", "glob", "mflix/.gitignore-python") >>

EXCLUSIONS == << "\\.gitignore$", "README\\.md$", "\\.env$" >>

(***************************************************************************)
(* Python's re on the syntax the embedded patterns use: literals, escaped  *)
(* characters, ".", "^", "$" and a named group holding ".+".               *)
(***************************************************************************)
Tok(t, c) == [t |-> t, c |-> c]

RECURSIVE Tokens(_, _)
Tokens(p, k) ==
    IF k > Len(p) THEN <<>>
    ELSE LET c == Char(p, k) IN
      CASE c = "\\" /\ k < Len(p) ->
             <<Tok("lit", Char(p, k + 1))>> \o Tokens(p, k + 2)
        [] c = "^" -> <<Tok("bol", "")>> \o Tokens(p, k + 1)
        [] c = "$" -> <<Tok("eol", "")>> \o Tokens(p, k + 1)
        [] c = "." -> <<Tok("any", "")>> \o Tokens(p, k + 1)
        [] c = "(" /\ k + 3 <= Len(p) /\ SubSeq(p, k + 1, k + 3) = "?P<" ->
             \* (?P<name>.+)
             LET e == SetMin({m \in (k + 4)..Len(p) : Char(p, m) = ">"}) IN
             <<Tok("any+", "")>> \o Tokens(p, e + 4)
        [] OTHER -> <<Tok("lit", c)>> \o Tokens(p, k + 1)

\* whether the tokens from ti on match s from position pos on
RECURSIVE MatchAt(_, _, _, _)
MatchAt(toks, ti, s, pos) ==
    IF ti > Len(toks) THEN TRUE
    ELSE LET tk == toks[ti] IN
      CASE tk.t = "bol" -> pos = 1 /\ MatchAt(toks, ti + 1, s, pos)
        [] tk.t = "eol" ->
             /\ \/ pos = Len(s) + 1
                \/ pos = Len(s) /\ Char(s, pos) = "\n"
             /\ MatchAt(toks, ti + 1, s, pos)
        [] tk.t = "lit" ->
             /\ pos <= Len(s)
             /\ Char(s, pos) = tk.c
             /\ MatchAt(toks, ti + 1, s, pos + 1)
        [] tk.t = "any" ->
             /\ pos <= Len(s)
             /\ Char(s, pos) # "\n"
             /\ MatchAt(toks, ti + 1, s, pos + 1)
        [] tk.t = "any+" ->
             \E e \in pos..Len(s) :
                /\ \A m \in pos..e : Char(s, m) # "\n"
                /\ MatchAt(toks, ti + 1, s, e + 1)

\* re.search(pattern, s) is not None
re_search(pattern, s) ==
    \E start \in 1..(Len(s) + 1) : MatchAt(Tokens(pattern, 1), 1, s, start)

\* re.match(pattern, s) is not None
re_match(pattern, s) == MatchAt(Tokens(pattern, 1), 1, s, 1)

\* fnmatch.fnmatch(s, pattern) on "*", "?" and literals (POSIX: normcase
\* changes nothing)
RECURSIVE GlobAt(_, _, _, _)
GlobAt(s, si, p, pi) ==
    IF pi > Len(p) THEN si > Len(s)
    ELSE LET c == Char(p, pi) IN
      CASE c = "*" -> \E e \in si..(Len(s) + 1) : GlobAt(s, e, p, pi + 1)
        [] c = "?" -> si <= Len(s) /\ GlobAt(s, si + 1, p, pi + 1)
        [] OTHER -> /\ si <= Len(s)
                    /\ Char(s, si) = c
                    /\ GlobAt(s, si + 1, p, pi + 1)

fnmatch(s, pattern) == GlobAt(s, 1, pattern, 1)

(***************************************************************************)
(* The functions of the Pattern Tester.                                    *)
(***************************************************************************)

\* returns at the first pattern, matched or not
is_excluded_FirstOnly(path) == re_search(EXCLUSIONS[1], path)

\* lines 60-65
is_excluded(path) ==
    \E n \in 1..Len(EXCLUSIONS) : re_search(EXCLUSIONS[n], path)

\* lines 68-70
test_prefix(path, pattern) == StartsWith(path, pattern)

\* lines 73-75
test_regex(path, pattern) == re_match(pattern, path)

\* lines 78-80
test_glob(path, pattern) == fnmatch(path, pattern)

\* lines 92-98: the dispatch on the pattern type
RuleMatched(path, pattern_type, pattern) ==
    CASE pattern_type = "prefix" -> test_prefix(path, pattern)
      [] pattern_type = "regex" -> test_regex(path, pattern)
      [] pattern_type = "glob" -> test_glob(path, pattern)
      [] OTHER -> FALSE

\* the loop stops at the first match
LoopOver_FirstMatch(n, matching) == n = Len(PATTERNS) \/ matching # <<>>

\* line 91: the loop over PATTERNS ends when every rule has been taken
LoopOver(n, matching) == n = Len(PATTERNS)

\* the skipped path is counted and not kept
AppendSkipped_Dropped(files, path) == files

\* line 136
AppendSkipped(files, path) == Append(files, path)

(***************************************************************************)
(* The actions of the Pattern Tester.                                      *)
(***************************************************************************)

\* lines 120-121: main takes the next file and calls test_file
TakeFile ==
    /\ tpc = "main_loop"
    /\ f < Len(TEST_FILES)
    /\ f' = f + 1
    /\ file_path' = TEST_FILES[f + 1]
    /\ tpc' = "test_file"
    /\ r' = 0
    /\ matching_rules' = <<>>
    /\ UNCHANGED <<status, rules_out, matched_count, skipped_count,
                   excluded_count, skipped_files>>
    /\ UNCHANGED vvars

\* lines 85-90: the exclusion check comes first
TestFileEnter ==
    /\ tpc = "test_file"
    /\ IF is_excluded(file_path)
       THEN /\ status' = "excluded"
            /\ rules_out' = <<>>
            /\ tpc' = "returned"
            /\ UNCHANGED <<r, matching_rules>>
       ELSE /\ matching_rules' = <<>>
            /\ r' = 0
            /\ tpc' = "rules"
            /\ UNCHANGED <<status, rules_out>>
    /\ UNCHANGED <<f, file_path, matched_count, skipped_count, excluded_count,
                   skipped_files>>
    /\ UNCHANGED vvars

\* lines 91-101: one rule is evaluated
EvalRule ==
    /\ tpc = "rules"
    /\ ~LoopOver(r, matching_rules)
    /\ r' = r + 1
    /\ LET rule == PATTERNS[r + 1] IN
       matching_rules' =
          IF RuleMatched(file_path, rule.type, rule.pattern)
          THEN Append(matching_rules, rule.name)
          ELSE matching_rules
    /\ UNCHANGED <<tpc, f, file_path, status, rules_out, matched_count,
                   skipped_count, excluded_count, skipped_files>>
    /\ UNCHANGED vvars

\* lines 103-106
TestFileReturn ==
    /\ tpc = "rules"
    /\ LoopOver(r, matching_rules)
    /\ IF matching_rules # <<>>
       THEN status' = "matched" /\ rules_out' = matching_rules
       ELSE status' = "skipped" /\ rules_out' = <<>>
    /\ tpc' = "returned"
    /\ UNCHANGED <<f, file_path, r, matching_rules, matched_count,
                   skipped_count, excluded_count, skipped_files>>
    /\ UNCHANGED vvars

\* lines 123-137: main counts the classification
Classify ==
    /\ tpc = "returned"
    /\ IF status = "excluded"
       THEN /\ excluded_count' = excluded_count + 1
            /\ UNCHANGED <<matched_count, skipped_count, skipped_files>>
       ELSE IF status = "matched"
       THEN /\ matched_count' = matched_count + 1
            /\ UNCHANGED <<excluded_count, skipped_count, skipped_files>>
       ELSE /\ skipped_count' = skipped_count + 1
            /\ skipped_files' = AppendSkipped(skipped_files, file_path)
            /\ UNCHANGED <<excluded_count, matched_count>>
    /\ tpc' = "main_loop"
    /\ UNCHANGED <<f, file_path, r, matching_rules, status, rules_out>>
    /\ UNCHANGED vvars

\* lines 139-177: the file list is exhausted; the summary is printed
PrintSummary ==
    /\ tpc = "main_loop"
    /\ f = Len(TEST_FILES)
    /\ tpc' = "done"
    /\ UNCHANGED <<f, file_path, r, matching_rules, status, rules_out,
                   matched_count, skipped_count, excluded_count, skipped_files>>
    /\ UNCHANGED vvars

\* lines 115-118: main's counters
InitMain ==
    /\ ValidatorIdle
    /\ tpc = "main_loop"
    /\ f = 0
    /\ file_path = ""
    /\ r = 0
    /\ matching_rules = <<>>
    /\ status = ""
    /\ rules_out = <<>>
    /\ matched_count = 0
    /\ skipped_count = 0
    /\ excluded_count = 0
    /\ skipped_files = <<>>

NextMain ==
    \/ TakeFile
    \/ TestFileEnter
    \/ EvalRule
    \/ TestFileReturn
    \/ Classify
    \/ PrintSummary

SpecMain == InitMain /\ [][NextMain]_vars

\* the paths test_file is called on: the embedded ones and the
\* concatenations of a few pieces
Chunks ==
    {"mflix/client/", "mflix/server/java-spring/", "mflix/", "other/",
     "README.md", ".gitignore", ".gitignore-java", ".env", "pom.xml",
     "README-JAVA-SPRING.md", "x", "\n"}

RECURSIVE Concat(_)
Concat(parts) ==
    IF parts = <<>> THEN "" ELSE parts[1] \o Concat(Tail(parts))

Paths ==
    {TEST_FILES[n] : n \in 1..Len(TEST_FILES)}
    \cup {Concat(parts) : parts \in SeqsUpTo(Chunks, MaxChunks)}

\* test_file is called on one path
InitTestFile ==
    /\ ValidatorIdle
    /\ tpc = "test_file"
    /\ file_path \in Paths
    /\ f = 0
    /\ r = 0
    /\ matching_rules = <<>>
    /\ status = ""
    /\ rules_out = <<>>
    /\ matched_count = 0
    /\ skipped_count = 0
    /\ excluded_count = 0
    /\ skipped_files = <<>>

NextTestFile ==
    \/ TestFileEnter
    \/ EvalRule
    \/ TestFileReturn

SpecTestFile == InitTestFile /\ [][NextTestFile]_vars

(***************************************************************************)
(* Properties of the Pattern Tester.                                       *)
(***************************************************************************)
EndsWith(s, suffix) ==
    Len(suffix) <= Len(s) /\ SubSeq(s, Len(s) - Len(suffix) + 1, Len(s)) = suffix

\* the path without one final newline
Chomp(s) ==
    IF Len(s) > 0 /\ Char(s, Len(s)) = "\n" THEN SubSeq(s, 1, Len(s) - 1) ELSE s

\* the path matches an exclusion pattern: it ends, up to one final newline,
\* with one of the excluded names
MatchesExclusion(path) ==
    \E suffix \in {".gitignore", "README.md", ".env"} :
        EndsWith(path, suffix) \/ EndsWith(Chomp(path), suffix)

\* the directory a regex rule of PATTERNS names: what stands between its
\* "^" and its "(?P<file>.+)$"
RegexDir(pattern) == SubSeq(pattern, 2, Len(pattern) - Len("(?P<file>.+)$"))

\* what a rule of PATTERNS is meant to match
ShouldMatch(rule, path) ==
    CASE rule.type = "prefix" -> StartsWith(path, rule.pattern)
      [] rule.type = "glob" -> path = rule.pattern
      [] rule.type = "regex" ->
           LET dir == RegexDir(rule.pattern)
               rest == Chomp(SubSeq(path, Len(dir) + 1, Len(path)))
           IN /\ StartsWith(path, dir)
              /\ rest # ""
              /\ \A m \in 1..Len(rest) : Char(rest, m) # "\n"

RECURSIVE NamesFrom(_, _)
NamesFrom(n, path) ==
    IF n > Len(PATTERNS) THEN <<>>
    ELSE (IF ShouldMatch(PATTERNS[n], path) THEN <<PATTERNS[n].name>> ELSE <<>>)
         \o NamesFrom(n + 1, path)

\* the names of the rules that match the path, in the order of PATTERNS
ExpectedRules(path) == NamesFrom(1, path)

ExpectedClass(path) ==
    IF MatchesExclusion(path) THEN "excluded"
    ELSE IF ExpectedRules(path) # <<>> THEN "matched" ELSE "skipped"

\* C5: a path that matches an exclusion pattern is classified excluded with
\* an empty rule list, and no rule is evaluated for it, whether or not it
\* would match a rule.
C5_ExclusionFirst ==
    MatchesExclusion(file_path) =>
        /\ tpc # "rules"
        /\ r = 0
        /\ matching_rules = <<>>
        /\ tpc = "returned" => (status = "excluded" /\ rules_out = <<>>)

\* C5 witness: mflix/client/README.md, which starts with the prefix of three
\* rules, has been classified excluded
C5_Witness ==
    /\ tpc = "returned"
    /\ file_path = "mflix/client/README.md"
    /\ ExpectedRules(file_path) # <<>>
    /\ status = "excluded"

\* C6: for a path that is not excluded, every rule is evaluated, and the
\* result is matched with the names of exactly the matching rules in the
\* order of their definition when there is one, skipped with an empty list
\* when there is none; mflix/client/src/App.tsx gives the three client rules.
C6_MatchedRulesInOrder ==
    (tpc = "returned" /\ ~MatchesExclusion(file_path)) =>
        /\ r = Len(PATTERNS)
        /\ rules_out = ExpectedRules(file_path)
        /\ status = (IF rules_out # <<>> THEN "matched" ELSE "skipped")
        /\ file_path = "mflix/client/src/App.tsx" =>
              /\ status = "matched"
              /\ rules_out = <<"mflix-client-to-java", "mflix-client-to-js",
                               "mflix-client-to-python">>
        /\ file_path = "mflix/server/java-spring/pom.xml" =>
              (status = "matched" /\ rules_out = <<"java-server">>)
        /\ file_path = "other/file.txt" =>
              (status = "skipped" /\ rules_out = <<>>)

\* C6 witness: mflix/client/src/App.tsx has been classified
C6_Witness ==
    /\ tpc = "returned"
    /\ file_path = "mflix/client/src/App.tsx"
    /\ Len(rules_out) = 3

\* the files main has classified and counted so far
Processed == IF tpc \in {"main_loop", "done"} THEN f ELSE f - 1

CountClass(class) ==
    Cardinality({n \in 1..Processed : ExpectedClass(TEST_FILES[n]) = class})

RECURSIVE SkippedOf(_, _)
SkippedOf(n, last) ==
    IF n > last THEN <<>>
    ELSE (IF ExpectedClass(TEST_FILES[n]) = "skipped"
          THEN <<TEST_FILES[n]>> ELSE <<>>) \o SkippedOf(n + 1, last)

\* C10: after any prefix of the file list the three counts sum to the number
\* of files processed, each count is the number of processed files of its
\* class (so each file raised exactly one), and skipped_files is the
\* sequence of the skipped paths in file order; at the end the counts sum
\* to the number of files and other/file.txt is in the skipped list.
C10_CountsPartitionFiles ==
    /\ matched_count + excluded_count + skipped_count = Processed
    /\ matched_count = CountClass("matched")
    /\ excluded_count = CountClass("excluded")
    /\ skipped_count = CountClass("skipped")
    /\ skipped_files = SkippedOf(1, Processed)
    /\ tpc = "done" =>
          /\ matched_count + excluded_count + skipped_count = Len(TEST_FILES)
          /\ \E n \in 1..Len(skipped_files) : skipped_files[n] = "other/file.txt"

\* C10 witness: main has finished with files of all three classes
C10_Witness ==
    /\ tpc = "done"
    /\ matched_count > 0
    /\ excluded_count > 0
    /\ skipped_count = Len(skipped_files)
    /\ skipped_count > 0

====
